---- MODULE Spec2Model ----
(***************************************************************************)
(* The wasm-vm host: the bootstrap orchestrator (main.ts) that owns the    *)
(* shared memory and the compiled module and relays Spawn Requests, and   *)
(* the worker script (worker.ts) that instantiates the module against the *)
(* kernel's import table (the syscall bridge) and runs one entry point.   *)
(***************************************************************************)
EXTENDS Integers, Sequences, FiniteSets, TLC

\* ------------------------------------------------------------------ bounds
\* Bytes of the shared memory region (main.ts allocates 1024 * 64 KiB).
MemSize == 4
\* Workers the run may create, the boot worker included.
MaxCtx == 3
\* Longest stack trace, in encoded bytes.
MaxTrace == 4
\* Largest capacity a bridge call is given.
MaxCap == 5
\* Longest device tree blob.
MaxDt == 3
ClockTicks == 4
MaxClock == 12

\* ------------------------------------------------------------ value domains
Offsets == 0..MemSize
Caps == 0..MaxCap
Ctxs == 1..MaxCtx
\* The flattened device tree: its first bytes are the magic d0 0d fe ed.
DtByte(i) == IF i = 1 THEN 208 ELSE IF i = 2 THEN 13 ELSE IF i = 3 THEN 254 ELSE 237
Blob(n) == [i \in 1..n |-> DtByte(i)]
Blobs == {Blob(n) : n \in 2..MaxDt}
\* An encoded stack trace of n bytes: ASCII text "abcd...".
Trace(n) == [i \in 1..n |-> 96 + i]
Traces == {Trace(n) : n \in 0..MaxTrace}
\* Values the kernel passes as handles, cpu indices and flags.
Tasks == {7, 8}
Cpus == {2}
Idles == {99}
Flags == {0, 1}

Min(a, b) == IF a < b THEN a ELSE b

\* ------------------------------------------------------------------- state
VARIABLES
  mem,        \* the Shared Memory Region: byte at each offset
  nworkers,   \* Workers created so far by the orchestrator (ids 1..nworkers)
  wname,      \* each Worker's name option
  listening,  \* whether listen() set the Worker's onmessage in the orchestrator
  inbox,      \* start messages posted to a worker, not yet dispatched
  outbox,     \* messages a worker posted to the orchestrator, not yet dispatched
  ctx,        \* each worker's execution context (instantiation state)
  parent,     \* history: the worker whose Spawn Request created each worker
  emitted,    \* history: every message each worker has posted, in order
  last,       \* history: the bridge call that ran last, with its arguments
  irqset,     \* history: the value each context last passed to set_irq_enabled
  clock       \* the host clock, performance.now() + performance.timeOrigin

vars == <<mem, nworkers, wname, listening, inbox, outbox, ctx, parent, emitted,
          last, irqset, clock>>

\* A worker before its onmessage ran: no instance.
NoCtx ==
  [status |-> "created", closing |-> FALSE, entry |-> "none", args |-> <<>>,
   irqflags |-> 0, get_dt |-> "none", devicetree |-> <<>>,
   vmlinux |-> "none", memory |-> "none"]

Event(op, c, args, ret, pre) ==
  [op |-> op, ctx |-> c, args |-> args, ret |-> ret, pre |-> pre]

\* ------------------------------------------------------ typed array helpers
\* Uint8Array.prototype.slice(a, b) for 0 <= a: the end is clamped to the length.
Slice(s, a, b) ==
  LET e == Min(b, Len(s)) IN
  IF e <= a THEN <<>> ELSE [i \in 1..(e - a) |-> s[a + i]]

\* memory.slice(a, b): a copy of the bytes at offsets a .. b-1, clamped.
MemSlice(m, a, b) ==
  LET e == Min(b, MemSize) IN
  IF e <= a THEN <<>> ELSE [i \in 1..(e - a) |-> m[a + i - 1]]

\* Uint8Array.prototype.set(src, off) throws RangeError when src does not fit.
SetFits(src, off) == off + Len(src) <= MemSize

MemSet(m, src, off) ==
  [i \in 0..(MemSize - 1) |->
     IF i >= off /\ i < off + Len(src) THEN src[i - off + 1] ELSE m[i]]

\* An indexed store typed[i] = v: out-of-range indices are ignored.
Store(s, i, v) == IF i >= 0 /\ i < Len(s) THEN [s EXCEPT ![i + 1] = v] ELSE s

\* TextDecoder.decode (UTF-8), for the bytes of one- and two-byte sequences:
\* an ASCII byte is its code point, a lead byte 0xC2..0xDF followed by a
\* continuation byte 0x80..0xBF is one code point, and any other byte decodes
\* to U+FFFD on its own.
IsCont(b) == b >= 128 /\ b < 192
IsLead2(b) == b >= 194 /\ b < 224
RECURSIVE Decode(_)
Decode(s) ==
  IF Len(s) = 0 THEN <<>>
  ELSE IF s[1] < 128 THEN <<s[1]>> \o Decode(Tail(s))
  ELSE IF IsLead2(s[1]) /\ Len(s) >= 2 /\ IsCont(s[2])
    THEN <<(s[1] - 192) * 64 + (s[2] - 128)>> \o Decode(Tail(Tail(s)))
  ELSE <<65533>> \o Decode(Tail(s))

\* ------------------------------------------------------------ orchestrator
\* Worker names, as code points: "boot" and "secondary".
BootName == <<98, 111, 111, 116>>
SecondaryName == <<115, 101, 99, 111, 110, 100, 97, 114, 121>>

\* The one compiled module and the one shared memory of the run.
vmlinux == "vmlinux"
memory == "memory"

\* Spawn Requests posted and not yet dispatched, over all workers.
RECURSIVE PendingUpTo(_, _)
PendingUpTo(ob, n) == IF n = 0 THEN 0 ELSE Len(ob[n]) + PendingUpTo(ob, n - 1)
Pending == PendingUpTo(outbox, MaxCtx)
\* The model stops the kernel from asking for more workers than MaxCtx.
Room == nworkers + Pending < MaxCtx

\* A listen that returns the worker without setting its onmessage.
listenNot(l, w) == l

\* listen(worker): sets the worker's onmessage and returns the worker.
listen(l, w) == [l EXCEPT ![w] = TRUE]

\* A spawn that posts the start message twice.
SpawnPostsTwice(src, name, msg) ==
  LET w == nworkers + 1 IN
  /\ nworkers' = w
  /\ parent' = [parent EXCEPT ![w] = src]
  /\ wname' = [wname EXCEPT ![w] = name]
  /\ listening' = listen(listening, w)
  /\ inbox' = [inbox EXCEPT ![w] = Append(Append(@, msg), msg)]

\* listen(new Worker(url, {name})).postMessage(msg)
Spawn(src, name, msg) ==
  LET w == nworkers + 1 IN
  /\ nworkers' = w
  /\ parent' = [parent EXCEPT ![w] = src]
  /\ wname' = [wname EXCEPT ![w] = name]
  /\ listening' = listen(listening, w)
  /\ inbox' = [inbox EXCEPT ![w] = Append(@, msg)]

\* A task start message that carries a fixed handle, not the request's.
TaskStartFixed(ev) ==
  [type |-> "task", vmlinux |-> vmlinux, memory |-> memory, task |-> 7]

\* A task start message carrying a memory of the new worker's own.
TaskStartOwnMemory(ev) ==
  [type |-> "task", vmlinux |-> vmlinux, memory |-> "memory of its own",
   task |-> ev.task]

TaskStart(ev) ==
  [type |-> "task", vmlinux |-> vmlinux, memory |-> memory, task |-> ev.task]

\* A secondary start message with cpu and idle exchanged.
SecondaryStartSwapped(ev) ==
  [type |-> "secondary", vmlinux |-> vmlinux, memory |-> memory,
   cpu |-> ev.idle, idle |-> ev.cpu]

SecondaryStart(ev) ==
  [type |-> "secondary", vmlinux |-> vmlinux, memory |-> memory,
   cpu |-> ev.cpu, idle |-> ev.idle]

BootStart(dt) ==
  [type |-> "boot", vmlinux |-> vmlinux, memory |-> memory, devicetree |-> dt]

\* A dispatch that takes the newest message of the outbox first.
NewestMessage(q) == q[Len(q)]

\* The message of a worker's outbox the orchestrator dispatches next.
NextMessage(q) == Head(q)
RestMessages(q) == Tail(q)

\* A switch whose default falls into the task case.
KindDefaultTask(ev) == IF ev.type = "secondary" THEN "secondary" ELSE "task"

\* switch (ev.data.type): the value the cases are compared with.
Kind(ev) == ev.type

\* worker.onmessage in the orchestrator: one message event of worker w. A
\* worker nobody listens to has its messages dropped.
MainOnMessage(w) ==
  /\ w <= nworkers
  /\ Len(outbox[w]) > 0
  /\ nworkers < MaxCtx
  /\ LET ev == NextMessage(outbox[w]) IN
     /\ outbox' = [outbox EXCEPT ![w] = RestMessages(@)]
     /\ IF listening[w] /\ Kind(ev) = "task"
          THEN Spawn(w, ev.name, TaskStart(ev))
        ELSE IF listening[w] /\ Kind(ev) = "secondary"
          THEN Spawn(w, SecondaryName, SecondaryStart(ev))
        ELSE UNCHANGED <<nworkers, wname, listening, inbox, parent>>
  /\ UNCHANGED <<mem, ctx, emitted>>

\* ------------------------------------------------------------------ worker
\* An instantiation whose irqflags starts at 1.
instantiateIrqOn(mod, wasmMemory, get_dt, dt) ==
  [status |-> "running", closing |-> FALSE, entry |-> "none", args |-> <<>>,
   irqflags |-> 1, get_dt |-> get_dt, devicetree |-> dt,
   vmlinux |-> mod, memory |-> wasmMemory]

\* instantiate(vmlinux, wasmMemory, get_dt): a fresh instance with its own
\* irqflags, bound to the module and the memory of the start message.
instantiate(mod, wasmMemory, get_dt, dt) ==
  [status |-> "running", closing |-> FALSE, entry |-> "none", args |-> <<>>,
   irqflags |-> 0, get_dt |-> get_dt, devicetree |-> dt,
   vmlinux |-> mod, memory |-> wasmMemory]

\* An onmessage that hands the boot case's get_dt to every instantiation.
OnStartBootGetDt(ev) ==
  IF ev.type = "boot"
    THEN [instantiate(ev.vmlinux, ev.memory, "boot", ev.devicetree)
            EXCEPT !.entry = "boot"]
  ELSE IF ev.type = "task"
    THEN [instantiate(ev.vmlinux, ev.memory, "boot", <<>>)
            EXCEPT !.entry = "task", !.args = <<ev.task>>]
  ELSE [instantiate(ev.vmlinux, ev.memory, "boot", <<>>)
            EXCEPT !.entry = "secondary", !.args = <<ev.cpu, ev.idle>>]

\* self.onmessage in the worker: instantiate and call the entry point.
OnStart(ev) ==
  IF ev.type = "boot"
    THEN [instantiate(ev.vmlinux, ev.memory, "boot", ev.devicetree)
            EXCEPT !.entry = "boot"]
  ELSE IF ev.type = "task"
    THEN [instantiate(ev.vmlinux, ev.memory, "default", <<>>)
            EXCEPT !.entry = "task", !.args = <<ev.task>>]
  ELSE [instantiate(ev.vmlinux, ev.memory, "default", <<>>)
            EXCEPT !.entry = "secondary", !.args = <<ev.cpu, ev.idle>>]

WorkerOnMessage(c) ==
  /\ c <= nworkers
  /\ Len(inbox[c]) > 0
  /\ ctx[c].status # "running"
  /\ ~ctx[c].closing
  /\ LET ev == Head(inbox[c]) IN
     /\ inbox' = [inbox EXCEPT ![c] = Tail(@)]
     /\ ctx' = IF ev.type \in {"boot", "task", "secondary"}
                 THEN [ctx EXCEPT ![c] = OnStart(ev)]
                 ELSE ctx
  /\ UNCHANGED <<mem, nworkers, wname, listening, outbox, parent, emitted>>

\* The entry point returns to onmessage.
EntryReturn(c) ==
  /\ ctx[c].status = "running"
  /\ ctx' = [ctx EXCEPT ![c].status = "returned"]
  /\ UNCHANGED <<mem, nworkers, wname, listening, inbox, outbox, parent, emitted>>

\* A bridge call is made by kernel code running in the context's entry call.
Running(c) == c <= nworkers /\ ctx[c].status = "running"

\* An exception of a bridge call unwinds the entry call.
Throw(cx, c) == [cx EXCEPT ![c].status = "threw"]

\* ------------------------------------------------------------ syscall bridge
\* A halt that takes back the messages this worker has posted.
haltDiscards(c) ==
  /\ Running(c)
  /\ ctx' = [ctx EXCEPT ![c].closing = TRUE]
  /\ outbox' = [outbox EXCEPT ![c] = <<>>]
  /\ UNCHANGED <<mem, nworkers, wname, listening, inbox, parent, emitted>>

\* halt(): self.close() marks the worker as closing and returns.
halt(c) ==
  /\ Running(c)
  /\ ctx' = [ctx EXCEPT ![c].closing = TRUE]
  /\ UNCHANGED <<mem, nworkers, wname, listening, inbox, outbox, parent, emitted>>

\* An irqflags kept at module level: one variable for every instantiation.
StoreIrqShared(cx, c, flags) ==
  [d \in DOMAIN cx |-> [cx[d] EXCEPT !.irqflags = flags]]

\* irqflags = flags, in the closure of this instantiation.
StoreIrq(cx, c, flags) == [cx EXCEPT ![c].irqflags = flags]

set_irq_enabled(c, flags) ==
  /\ Running(c)
  /\ ctx' = StoreIrq(ctx, c, flags)
  /\ UNCHANGED <<mem, nworkers, wname, listening, inbox, outbox, parent, emitted>>

\* return irqflags, of the closure of this instantiation.
IrqEnabled(cx, c) == cx[c].irqflags

get_irq_enabled(c) ==
  /\ Running(c)
  /\ UNCHANGED <<mem, nworkers, wname, listening, inbox, outbox, ctx, parent, emitted>>

\* assert(cond, msg) of util.ts: passes when cond holds, throws otherwise.
assert(cond) == cond

\* A default get_dt that clears the caller's buffer.
DefaultGetDtClears(m, buf, size) ==
  [i \in 0..(MemSize - 1) |-> IF i >= buf /\ i < buf + size THEN 0 ELSE m[i]]

\* The default get_dt of instantiate: console.error, and nothing else.
DefaultGetDt(m, buf, size) == m

\* A boot get_dt that copies one byte too few: devicetree.slice(0, size - 1).
BootDtBytesShort(dt, size) == Slice(dt, 0, size - 1)

\* The bytes the boot get_dt copies: devicetree.slice(0, size).
BootDtBytes(dt, size) == Slice(dt, 0, size)

\* A boot get_dt that copies first and asserts afterwards.
BootGetDtCopiesFirst(c, buf, size) ==
  LET dt == ctx[c].devicetree
      src == BootDtBytes(dt, size) IN
  /\ mem' = IF SetFits(src, buf) THEN MemSet(mem, src, buf) ELSE mem
  /\ ctx' = IF assert(size >= Len(dt)) /\ SetFits(src, buf) THEN ctx ELSE Throw(ctx, c)

\* The boot get_dt: the assertion, then Uint8Array.set at buf.
BootGetDt(c, buf, size) ==
  LET dt == ctx[c].devicetree
      src == BootDtBytes(dt, size) IN
  IF assert(size >= Len(dt)) /\ SetFits(src, buf)
    THEN mem' = MemSet(mem, src, buf) /\ ctx' = ctx
    ELSE mem' = mem /\ ctx' = Throw(ctx, c)

get_dt(c, buf, size) ==
  /\ Running(c)
  /\ IF ctx[c].get_dt = "boot"
       THEN BootGetDt(c, buf, size)
       ELSE mem' = DefaultGetDt(mem, buf, size) /\ ctx' = ctx
  /\ UNCHANGED <<nworkers, wname, listening, inbox, outbox, parent, emitted>>

\* The three indexed stores of get_stacktrace, made when size >= byteLength.
Mark(trace, size) ==
  IF size >= Len(trace)
    THEN Store(Store(Store(trace, size - 1, 46), size - 2, 46), size - 3, 46)
    ELSE trace

\* A get_stacktrace that copies the whole trace, without slice(0, size).
StackBytesWhole(trace, size) == Mark(trace, size)

\* trace.slice(0, size), after the stores.
StackBytes(trace, size) == Slice(Mark(trace, size), 0, size)

get_stacktrace(c, buf, size, trace) ==
  /\ Running(c)
  /\ LET src == StackBytes(trace, size) IN
     IF SetFits(src, buf)
       THEN mem' = MemSet(mem, src, buf) /\ ctx' = ctx
       ELSE mem' = mem /\ ctx' = Throw(ctx, c)
  /\ UNCHANGED <<nworkers, wname, listening, inbox, outbox, parent, emitted>>

\* A postMessage that posts the message twice.
postMessageTwice(ob, c, msg) == [ob EXCEPT ![c] = Append(Append(@, msg), msg)]

\* self.postMessage(msg): one message more in this worker's outbox.
postMessage(ob, c, msg) == [ob EXCEPT ![c] = Append(@, msg)]

TaskRequest(task, name) == [type |-> "task", task |-> task, name |-> name]
SecondaryRequest(cpu, idle) == [type |-> "secondary", cpu |-> cpu, idle |-> idle]

\* A new_worker that waits for an answer: the caller stops running until then.
new_workerWaits(c, task, comm, commLen) ==
  /\ Running(c)
  /\ Room
  /\ LET name == Decode(MemSlice(mem, comm, comm + commLen)) IN
     /\ outbox' = postMessage(outbox, c, TaskRequest(task, name))
     /\ emitted' = [emitted EXCEPT ![c] = Append(@, TaskRequest(task, name))]
  /\ ctx' = [ctx EXCEPT ![c].status = "waiting"]
  /\ UNCHANGED <<mem, nworkers, wname, listening, inbox, parent>>

new_worker(c, task, comm, commLen) ==
  /\ Running(c)
  /\ Room
  /\ LET name == Decode(MemSlice(mem, comm, comm + commLen)) IN
     /\ outbox' = postMessage(outbox, c, TaskRequest(task, name))
     /\ emitted' = [emitted EXCEPT ![c] = Append(@, TaskRequest(task, name))]
  /\ UNCHANGED <<mem, nworkers, wname, listening, inbox, ctx, parent>>

bringup_secondary(c, cpu, idle) ==
  /\ Running(c)
  /\ Room
  /\ outbox' = postMessage(outbox, c, SecondaryRequest(cpu, idle))
  /\ emitted' = [emitted EXCEPT ![c] = Append(@, SecondaryRequest(cpu, idle))]
  /\ UNCHANGED <<mem, nworkers, wname, listening, inbox, ctx, parent>>

\* A store of the kernel's own code into the imported memory.
store(c, off, val) ==
  /\ Running(c)
  /\ mem' = [mem EXCEPT ![off] = val]
  /\ UNCHANGED <<nworkers, wname, listening, inbox, outbox, ctx, parent, emitted>>

\* boot_console_write(msg, len): decodes memory.slice(msg, msg + len) and
\* logs the text; nothing of the program's state changes.
ConsoleText(m, msg, len) == Decode(MemSlice(m, msg, msg + len))

boot_console_write(c, msg, len) ==
  /\ Running(c)
  /\ UNCHANGED <<mem, nworkers, wname, listening, inbox, outbox, ctx, parent, emitted>>

\* The host clock counts ticks; ClockTicks of them make the 5 microseconds
\* that one unit of (performance.now() + performance.timeOrigin) * 200 is.
\* Math.round rounds to the nearest integer, a half upwards.
Round200(k) == (2 * k + ClockTicks) \div (2 * ClockTicks)

\* The straightforward conversion the code's comment sets aside:
\* BigInt(Math.round(t * 1000000)).
NowNsecDirect(k) == (2 * k * 5000 + ClockTicks) \div (2 * ClockTicks)

\* BigInt(Math.round((performance.now() + performance.timeOrigin) * 200)) * 5000n
NowNsec(k) == Round200(k) * 5000

get_now_nsec(c) ==
  /\ Running(c)
  /\ UNCHANGED <<mem, nworkers, wname, listening, inbox, outbox, ctx, parent, emitted>>

\* What the kernel of context c reads at an offset: a byte of the memory its
\* instance imported. A memory other than the shared one is never written to
\* by the contexts bound to the shared one, and reads as it was allocated.
load(c, off) == IF ctx[c].memory = memory THEN mem[off] ELSE 0

\* ------------------------------------------------------------ specifications
ZeroMem == [i \in 0..(MemSize - 1) |-> 0]
NoEvent == Event("init", 0, <<>>, 0, <<>>)
\* No set_irq_enabled call made yet in a context.
NeverSet == -1

\* main.ts has run: memory allocated, module compiled, device tree generated,
\* the boot worker created, listened to and sent its start message.
Init ==
  /\ mem = ZeroMem
  /\ nworkers = 1
  /\ wname = [c \in Ctxs |-> IF c = 1 THEN BootName ELSE <<>>]
  /\ listening = [c \in Ctxs |-> c = 1]
  /\ inbox = [c \in Ctxs |-> IF c = 1 THEN <<BootStart(Blob(MaxDt))>> ELSE <<>>]
  /\ outbox = [c \in Ctxs |-> <<>>]
  /\ ctx = [c \in Ctxs |-> NoCtx]
  /\ parent = [c \in Ctxs |-> 0]
  /\ emitted = [c \in Ctxs |-> <<>>]
  /\ last = NoEvent
  /\ irqset = [c \in Ctxs |-> NeverSet]
  /\ clock = 0

\* The arguments the kernel uses in the whole-system specification.
SysOffs == {0}
SysNameLens == {2}
SysStores == {<<1, 171>>}

\* The relay: the orchestrator, the workers' start and the calls that post
\* Spawn Requests. The call log is not kept here.
Next ==
  \/ \E w \in Ctxs : MainOnMessage(w) /\ UNCHANGED <<last, irqset, clock>>
  \/ \E c \in Ctxs : WorkerOnMessage(c) /\ UNCHANGED <<last, irqset, clock>>
  \/ \E c \in Ctxs : EntryReturn(c) /\ UNCHANGED <<last, irqset, clock>>
  \/ \E c \in Ctxs : halt(c) /\ UNCHANGED <<last, irqset, clock>>
  \/ \E c \in Ctxs, t \in Tasks, b \in SysOffs, n \in SysNameLens :
       new_worker(c, t, b, n) /\ UNCHANGED <<last, irqset, clock>>
  \/ \E c \in Ctxs, p \in Cpus, i \in Idles :
       bringup_secondary(c, p, i) /\ UNCHANGED <<last, irqset, clock>>
  \/ \E c \in Ctxs, s \in SysStores : store(c, s[1], s[2]) /\ UNCHANGED <<last, irqset, clock>>

Spec == Init /\ [][Next]_vars

\* --- the relay, offered messages of every kind
\* The orchestrator's handler takes whatever message event a worker delivers.
\* The worker script posts two kinds only; here a worker also delivers
\* messages of other kinds, so that the switch meets a value it has no case
\* for; one such message a worker keeps the state space finite.
OtherKinds == {"boot", "exit"}
OtherMessage(kind, task) == [type |-> kind, task |-> task, name |-> <<>>]

post_other(c, kind, task) ==
  /\ Running(c)
  /\ Room
  /\ \A i \in 1..Len(emitted[c]) : emitted[c][i].type \in {"task", "secondary"}
  /\ outbox' = postMessage(outbox, c, OtherMessage(kind, task))
  /\ emitted' = [emitted EXCEPT ![c] = Append(@, OtherMessage(kind, task))]
  /\ UNCHANGED <<mem, nworkers, wname, listening, inbox, ctx, parent>>

NextAnyKind ==
  \/ \E w \in Ctxs : MainOnMessage(w) /\ UNCHANGED <<last, irqset, clock>>
  \/ \E c \in Ctxs : WorkerOnMessage(c) /\ UNCHANGED <<last, irqset, clock>>
  \/ \E c \in Ctxs : new_worker(c, 8, 0, 0) /\ UNCHANGED <<last, irqset, clock>>
  \/ \E c \in Ctxs, p \in Cpus, i \in Idles :
       bringup_secondary(c, p, i) /\ UNCHANGED <<last, irqset, clock>>
  \/ \E c \in Ctxs, k \in OtherKinds :
       post_other(c, k, 7) /\ UNCHANGED <<last, irqset, clock>>

SpecAnyKind == Init /\ [][NextAnyKind]_vars

\* --------------------------------------------------- the bridge, call by call
\* The kernel has stored into the shared memory before the call: the bytes the
\* call finds there.
Pattern == [i \in 0..(MemSize - 1) |-> i + 1]
InitMems == {ZeroMem, Pattern}

\* The start message worker c was sent: the boot worker first, then task
\* workers and secondary CPUs, all asked for by the boot context.
StartOf(c, dt) ==
  IF c = 1 THEN BootStart(dt)
  ELSE IF c % 2 = 0 THEN TaskStart(TaskRequest(7, <<0, 0>>))
  ELSE SecondaryStart(SecondaryRequest(2, 99))

RequestOf(c) ==
  IF c % 2 = 0 THEN TaskRequest(7, <<0, 0>>) ELSE SecondaryRequest(2, 99)

\* The boot context has asked for workers 2..n and the orchestrator has
\* created them all; `started` tells which of them have run their onmessage.
WorldOf(n, dt, started) ==
  /\ nworkers = n
  /\ wname = [c \in Ctxs |-> IF c = 1 THEN BootName
                             ELSE IF c > n THEN <<>>
                             ELSE IF c % 2 = 0 THEN <<0, 0>> ELSE SecondaryName]
  /\ listening = [c \in Ctxs |-> c <= n]
  /\ inbox = [c \in Ctxs |-> IF c \in started \/ c > n THEN <<>>
                             ELSE <<StartOf(c, dt)>>]
  /\ outbox = [c \in Ctxs |-> <<>>]
  /\ ctx = [c \in Ctxs |-> IF c \in started THEN OnStart(StartOf(c, dt)) ELSE NoCtx]
  /\ parent = [c \in Ctxs |-> IF c = 1 \/ c > n THEN 0 ELSE 1]
  /\ emitted = [c \in Ctxs |-> IF c = 1 THEN [i \in 1..(n - 1) |-> RequestOf(i + 1)]
                               ELSE <<>>]
  /\ last = NoEvent
  /\ irqset = [c \in Ctxs |-> NeverSet]
  /\ clock = 0

World(dt, started) == WorldOf(MaxCtx, dt, started)

\* One call of get_dt or get_stacktrace, in any context, with any arguments,
\* on any of the memories and device trees.
InitBridge ==
  /\ mem \in InitMems
  /\ \E dt \in Blobs : World(dt, Ctxs)

Fresh == last.op = "init"

NextBridge ==
  \/ \E c \in Ctxs, b \in Offsets, n \in Caps :
       Fresh /\ get_dt(c, b, n) /\ last' = Event("get_dt", c, <<b, n>>, 0, mem)
             /\ UNCHANGED <<irqset, clock>>
  \/ \E c \in Ctxs, b \in Offsets, n \in Caps, t \in Traces :
       Fresh /\ get_stacktrace(c, b, n, t)
             /\ last' = Event("get_stacktrace", c, <<b, n, t>>, 0, mem)
             /\ UNCHANGED <<irqset, clock>>

SpecBridge == InitBridge /\ [][NextBridge]_vars

\* ------------------------------------------- the interrupt flag, interleaved
\* The boot context runs and the other workers have their start message
\* waiting: they instantiate and call the flag's two functions in any order.
InitIrq ==
  /\ mem = ZeroMem
  /\ World(Blob(MaxDt), {1})

\* The flag get_irq_enabled would return in each context, before the call.
FlagsNow == [d \in Ctxs |-> IrqEnabled(ctx, d)]

NextIrq ==
  \/ \E c \in Ctxs :
       WorkerOnMessage(c) /\ last' = Event("start", c, <<>>, 0, FlagsNow)
         /\ UNCHANGED <<irqset, clock>>
  \/ \E c \in Ctxs, f \in Flags :
       set_irq_enabled(c, f) /\ last' = Event("set_irq_enabled", c, <<f>>, 0, FlagsNow)
         /\ irqset' = [irqset EXCEPT ![c] = f]
         /\ UNCHANGED clock
  \/ \E c \in Ctxs :
       get_irq_enabled(c)
         /\ last' = Event("get_irq_enabled", c, <<>>, IrqEnabled(ctx, c), FlagsNow)
         /\ UNCHANGED <<irqset, clock>>

SpecIrq == InitIrq /\ [][NextIrq]_vars

\* ---------------------------------------- the interrupt flag among the calls
\* One worker short of the bound, so that a request can still be posted: the
\* contexts start and make the bridge's calls in any order. The log keeps the
\* flags as each call found them.
InitFlag ==
  /\ mem = ZeroMem
  /\ WorldOf(MaxCtx - 1, Blob(MaxDt), {1})

OtherCall(c, op) == last' = Event(op, c, <<>>, 0, FlagsNow) /\ UNCHANGED <<irqset, clock>>

NextFlag ==
  \/ \E c \in Ctxs :
       WorkerOnMessage(c) /\ last' = Event("start", c, <<>>, 0, FlagsNow)
         /\ UNCHANGED <<irqset, clock>>
  \/ \E c \in Ctxs, f \in Flags :
       set_irq_enabled(c, f) /\ last' = Event("set_irq_enabled", c, <<f>>, 0, FlagsNow)
         /\ irqset' = [irqset EXCEPT ![c] = f]
         /\ UNCHANGED clock
  \/ \E c \in Ctxs :
       get_irq_enabled(c)
         /\ last' = Event("get_irq_enabled", c, <<>>, IrqEnabled(ctx, c), FlagsNow)
         /\ UNCHANGED <<irqset, clock>>
  \/ \E c \in Ctxs :
       boot_console_write(c, 0, 2)
         /\ last' = Event("boot_console_write", c, <<ConsoleText(mem, 0, 2)>>, 0, FlagsNow)
         /\ UNCHANGED <<irqset, clock>>
  \/ \E c \in Ctxs : get_dt(c, 0, MaxDt) /\ OtherCall(c, "get_dt")
  \/ \E c \in Ctxs : get_stacktrace(c, 0, MaxTrace, Trace(2)) /\ OtherCall(c, "get_stacktrace")
  \/ \E c \in Ctxs : new_worker(c, 8, 0, 2) /\ OtherCall(c, "new_worker")
  \/ \E c \in Ctxs : bringup_secondary(c, 2, 99) /\ OtherCall(c, "bringup_secondary")
  \/ \E c \in Ctxs : get_now_nsec(c) /\ OtherCall(c, "get_now_nsec")

SpecFlag == InitFlag /\ [][NextFlag]_vars

\* ------------------------------------------------- the relay, fairly scheduled
\* The event loops: the orchestrator's dispatches every message event queued
\* for a worker's onmessage, and a worker's dispatches the start message once
\* its script has run. Kernel code makes its calls when it pleases.
NextFair ==
  \/ \E w \in Ctxs : MainOnMessage(w) /\ UNCHANGED <<last, irqset, clock>>
  \/ \E c \in Ctxs : WorkerOnMessage(c) /\ UNCHANGED <<last, irqset, clock>>
  \/ \E c \in Ctxs : EntryReturn(c) /\ UNCHANGED <<last, irqset, clock>>
  \/ \E c \in Ctxs : halt(c) /\ UNCHANGED <<last, irqset, clock>>
  \/ \E c \in Ctxs : new_worker(c, 8, 0, 0) /\ UNCHANGED <<last, irqset, clock>>
  \/ \E c \in Ctxs, p \in Cpus, i \in Idles :
       bringup_secondary(c, p, i) /\ UNCHANGED <<last, irqset, clock>>

Fairness ==
  /\ \A w \in Ctxs : WF_vars(MainOnMessage(w) /\ UNCHANGED <<last, irqset, clock>>)
  /\ \A c \in Ctxs : WF_vars(WorkerOnMessage(c) /\ UNCHANGED <<last, irqset, clock>>)

SpecFair == Init /\ [][NextFair]_vars /\ Fairness

\* ------------------------------------------------------- main.ts from its top
\* Nothing exists yet: the module body of main.ts has still to generate the
\* device tree and to create the boot worker.
InitBoot ==
  /\ mem = ZeroMem
  /\ nworkers = 0
  /\ wname = [c \in Ctxs |-> <<>>]
  /\ listening = [c \in Ctxs |-> FALSE]
  /\ inbox = [c \in Ctxs |-> <<>>]
  /\ outbox = [c \in Ctxs |-> <<>>]
  /\ ctx = [c \in Ctxs |-> NoCtx]
  /\ parent = [c \in Ctxs |-> 0]
  /\ emitted = [c \in Ctxs |-> <<>>]
  /\ last = NoEvent
  /\ irqset = [c \in Ctxs |-> NeverSet]
  /\ clock = 0

\* generateDeviceTree throws EncodingError: the module body stops there.
MainThrows ==
  /\ nworkers = 0
  /\ Fresh
  /\ last' = Event("EncodingError", 0, <<>>, 0, mem)
  /\ UNCHANGED <<mem, nworkers, wname, listening, inbox, outbox, ctx, parent,
                 emitted, irqset, clock>>

\* generateDeviceTree returns the blob: the boot worker is created, listened
\* to and posted its start message.
MainStart(dt) ==
  /\ nworkers = 0
  /\ Fresh
  /\ nworkers' = 1
  /\ wname' = [wname EXCEPT ![1] = BootName]
  /\ listening' = listen(listening, 1)
  /\ inbox' = [inbox EXCEPT ![1] = <<BootStart(dt)>>]
  /\ last' = Event("main", 0, <<>>, 0, mem)
  /\ UNCHANGED <<mem, outbox, ctx, parent, emitted, irqset, clock>>

NextBoot ==
  \/ MainThrows
  \/ \E dt \in Blobs : MainStart(dt)
  \/ \E w \in Ctxs : MainOnMessage(w) /\ UNCHANGED <<last, irqset, clock>>
  \/ \E c \in Ctxs : WorkerOnMessage(c) /\ UNCHANGED <<last, irqset, clock>>
  \/ \E c \in Ctxs, p \in Cpus, i \in Idles :
       bringup_secondary(c, p, i) /\ UNCHANGED <<last, irqset, clock>>
  \/ \E c \in Ctxs, n \in Caps :
       get_dt(c, 0, n) /\ last' = Event("get_dt", c, <<0, n>>, 0, mem)
         /\ UNCHANGED <<irqset, clock>>

SpecBoot == InitBoot /\ [][NextBoot]_vars

\* ------------------------------------------------------------ the clock
\* Every context runs; the host clock advances and the contexts read it. The
\* log keeps, for each context, the value its latest call returned.
InitClock ==
  /\ mem = ZeroMem
  /\ World(Blob(MaxDt), Ctxs)

Returned == IF last.op = "get_now_nsec" THEN last.pre ELSE [c \in Ctxs |-> 0]

Tick ==
  /\ clock < MaxClock
  /\ clock' = clock + 1
  /\ UNCHANGED <<mem, nworkers, wname, listening, inbox, outbox, ctx, parent,
                 emitted, last, irqset>>

NextClock ==
  \/ Tick
  \/ \E c \in Ctxs :
       get_now_nsec(c)
         /\ last' = Event("get_now_nsec", c, <<Returned[c]>>, NowNsec(clock),
                          [Returned EXCEPT ![c] = NowNsec(clock)])
         /\ UNCHANGED <<irqset, clock>>

SpecClock == InitClock /\ [][NextClock]_vars

\* The states SpecBridge and SpecIrq start from are states of Spec: TLC reaches
\* both under Spec (their negations are violated as invariants).
BridgeWorldReached == mem = ZeroMem /\ World(Blob(MaxDt), Ctxs)
IrqWorldReached == mem = ZeroMem /\ World(Blob(MaxDt), {1})

\* ------------------------------------------------------------------ claims
\* What the last bridge call was given, and the memory it found.
LastBuf == last.args[1]
LastCap == last.args[2]
LastTrace == last.args[3]
Caller == last.ctx

\* Every byte outside [lo, hi) is as the call found it.
SameOutside(lo, hi) ==
  \A i \in 0..(MemSize - 1) : (i < lo \/ i >= hi) => mem[i] = last.pre[i]

\* The bytes at [lo, lo + Len(bytes)) are `bytes`.
Holds(lo, bytes) ==
  /\ lo + Len(bytes) <= MemSize
  /\ \A k \in 1..Len(bytes) : mem[lo + k - 1] = bytes[k]

\* C1: get_dt called in a task or secondary context, with any offset and
\* capacity, leaves every byte of the shared memory as it was, and the calling
\* context keeps running.
C1_NonBootGetDtWritesNothing ==
  (last.op = "get_dt" /\ ctx[Caller].entry \in {"task", "secondary"})
    => (mem = last.pre /\ ctx[Caller].status = "running")

C1_Witness ==
  /\ last.op = "get_dt"
  /\ ctx[Caller].entry = "task"
  /\ last.pre = Pattern
  /\ LastBuf = 1
  /\ LastCap = MaxCap

\* C2: get_dt in the boot context. With capacity >= the blob's length and the
\* blob's range inside the memory, the bytes at [offset, offset + length) are
\* the blob and the context runs on; in every case no byte outside that range
\* changes; with capacity < length the call throws and no byte changes.
C2_BootGetDt ==
  (last.op = "get_dt" /\ ctx[Caller].entry = "boot") =>
    LET dt == ctx[Caller].devicetree IN
    /\ (LastCap >= Len(dt) /\ LastBuf + Len(dt) <= MemSize)
         => (Holds(LastBuf, dt) /\ ctx[Caller].status = "running")
    /\ SameOutside(LastBuf, LastBuf + Len(dt))
    /\ LastCap < Len(dt) => (mem = last.pre /\ ctx[Caller].status = "threw")

C2_Witness ==
  /\ last.op = "get_dt"
  /\ ctx[Caller].entry = "boot"
  /\ last.pre = Pattern
  /\ LastCap > Len(ctx[Caller].devicetree)
  /\ LastBuf = 1
  /\ mem # last.pre
  /\ Holds(1, ctx[Caller].devicetree)

\* The assertion's case of C2: a capacity one byte short of the blob.
C2_Rejected ==
  /\ last.op = "get_dt"
  /\ ctx[Caller].entry = "boot"
  /\ LastCap = Len(ctx[Caller].devicetree) - 1
  /\ ctx[Caller].status = "threw"

\* C3: get_stacktrace with a capacity smaller than the encoded trace writes
\* nothing outside [offset, offset + capacity), and the last three bytes of
\* that range are the marker "...".
C3_TruncationMarker ==
  (/\ last.op = "get_stacktrace"
   /\ LastCap < Len(LastTrace)
   /\ LastCap >= 3
   /\ LastBuf + LastCap <= MemSize)
    => /\ SameOutside(LastBuf, LastBuf + LastCap)
       /\ Holds(LastBuf + LastCap - 3, <<46, 46, 46>>)

\* C4: get_stacktrace with a capacity strictly greater than the encoded trace
\* writes the trace as it is: no byte of it is replaced by the marker.
C4_ShortTraceUnmodified ==
  (/\ last.op = "get_stacktrace"
   /\ LastCap > Len(LastTrace)
   /\ LastBuf + Len(LastTrace) <= MemSize)
    => Holds(LastBuf, LastTrace)

\* C5: get_stacktrace, for every offset, capacity and trace, leaves every
\* byte outside [offset, offset + capacity) as it was.
C5_StacktraceWithinCapacity ==
  last.op = "get_stacktrace" => SameOutside(LastBuf, LastBuf + LastCap)

C5_Witness ==
  /\ last.op = "get_stacktrace"
  /\ last.pre = Pattern
  /\ LastBuf = 1
  /\ LastCap = 2
  /\ Len(LastTrace) = MaxTrace
  /\ Holds(1, <<97, 98>>)

\* C6: set_irq_enabled called in one context never changes the value
\* get_irq_enabled returns in any other context.
C6_IrqFlagPrivate ==
  last.op = "set_irq_enabled" =>
    \A d \in Ctxs \ {Caller} : IrqEnabled(ctx, d) = last.pre[d]

C6_Witness ==
  /\ last.op = "set_irq_enabled"
  /\ Caller = 2
  /\ last.args = <<0>>
  /\ ctx[2].status = "running" /\ IrqEnabled(ctx, 2) = 0
  /\ ctx[1].status = "running" /\ IrqEnabled(ctx, 1) = 1
  /\ last.pre[2] = 1

\* C7: each new_worker call posts exactly one request, of kind task, with the
\* handle and the name decoded from memory at comm .. comm + commLen; each
\* bringup_secondary call posts exactly one request, of kind secondary, with
\* (cpu, idle); neither posts anything else, nor creates or starts a worker.
C7_OneRequestPerCall ==
  [][/\ \A c \in Ctxs, t \in Tasks, b \in SysOffs, n \in SysNameLens :
          new_worker(c, t, b, n) =>
            /\ outbox'[c] = Append(outbox[c],
                 [type |-> "task", task |-> t,
                  name |-> Decode(MemSlice(mem, b, b + n))])
            /\ \A d \in Ctxs \ {c} : outbox'[d] = outbox[d]
            /\ inbox' = inbox
            /\ nworkers' = nworkers
     /\ \A c \in Ctxs, p \in Cpus, i \in Idles :
          bringup_secondary(c, p, i) =>
            /\ outbox'[c] = Append(outbox[c],
                 [type |-> "secondary", cpu |-> p, idle |-> i])
            /\ \A d \in Ctxs \ {c} : outbox'[d] = outbox[d]
            /\ inbox' = inbox
            /\ nworkers' = nworkers
    ]_vars

\* Both calls have acted: the name read after the kernel stored 0xAB.
C7_Witness ==
  outbox[1] = << [type |-> "task", task |-> 7, name |-> <<0, 65533>>],
                 [type |-> "secondary", cpu |-> 2, idle |-> 99] >>

\* C8: for every task request the orchestrator dispatches, from the boot
\* worker or from any worker it created, it creates exactly one worker, posts
\* it exactly one start message (module, memory, the request's handle), and
\* listens to it: every worker created stays listened to.
C8_TaskRequestSpawns ==
  /\ [][\A w \in Ctxs :
          (MainOnMessage(w) /\ Head(outbox[w]).type = "task") =>
            /\ nworkers' = nworkers + 1
            /\ inbox'[nworkers'] =
                 << [type |-> "task", vmlinux |-> "vmlinux", memory |-> "memory",
                     task |-> Head(outbox[w]).task] >>
            /\ \A d \in Ctxs \ {nworkers'} : inbox'[d] = inbox[d]
            /\ listening'[nworkers']
            /\ \A d \in Ctxs : listening[d] => listening'[d]
       ]_vars
  /\ [](\A d \in 1..nworkers : listening[d])

\* A task context, itself spawned, asked for a task with handle 8, and the
\* worker for it has just been created.
C8_Witness ==
  /\ nworkers = 3
  /\ parent[2] = 1
  /\ ctx[2].entry = "task"
  /\ parent[3] = 2
  /\ inbox[3] = << [type |-> "task", vmlinux |-> "vmlinux", memory |-> "memory",
                    task |-> 8] >>
  /\ emitted[2] = << [type |-> "task", task |-> 8, name |-> <<0, 65533>>] >>

\* C9: for every secondary request the orchestrator dispatches, it creates
\* exactly one worker and posts it exactly one start message (module, memory,
\* the request's cpu, the request's idle).
C9_SecondaryRequestSpawns ==
  [][\A w \in Ctxs :
       (MainOnMessage(w) /\ Head(outbox[w]).type = "secondary") =>
         /\ nworkers' = nworkers + 1
         /\ inbox'[nworkers'] =
              << [type |-> "secondary", vmlinux |-> "vmlinux", memory |-> "memory",
                  cpu |-> Head(outbox[w]).cpu, idle |-> Head(outbox[w]).idle] >>
         /\ \A d \in Ctxs \ {nworkers'} : inbox'[d] = inbox[d]
    ]_vars

C9_Witness ==
  /\ nworkers = 2
  /\ parent[2] = 1
  /\ emitted[1] = << [type |-> "secondary", cpu |-> 2, idle |-> 99] >>
  /\ outbox[1] = <<>>
  /\ inbox[2] = << [type |-> "secondary", vmlinux |-> "vmlinux", memory |-> "memory",
                    cpu |-> 2, idle |-> 99] >>

\* The workers created for worker w's requests, in the order of creation.
KidsOf(w) ==
  SelectSeq([k \in 1..MaxCtx |-> k], LAMBDA k : k <= nworkers /\ parent[k] = w)

\* What a worker was created for: from its start message, or from its entry call.
MadeFor(k) ==
  IF Len(inbox[k]) > 0
    THEN LET m == Head(inbox[k]) IN
         IF m.type = "task" THEN <<"task", <<m.task>>>>
         ELSE <<"secondary", <<m.cpu, m.idle>>>>
    ELSE <<ctx[k].entry, ctx[k].args>>

AskedFor(r) ==
  IF r.type = "task" THEN <<"task", <<r.task>>>> ELSE <<"secondary", <<r.cpu, r.idle>>>>

\* C10: the requests of one worker are handled in the order it posted them:
\* the i-th worker created for it was created for its i-th request, and the
\* requests still waiting are its newest, in the order posted.
C10_PerSourceFifo ==
  \A w \in Ctxs :
    LET kids == KidsOf(w) IN
    /\ Len(emitted[w]) = Len(kids) + Len(outbox[w])
    /\ \A i \in 1..Len(kids) : MadeFor(kids[i]) = AskedFor(emitted[w][i])
    /\ \A i \in 1..Len(outbox[w]) : outbox[w][i] = emitted[w][Len(kids) + i]

\* The boot context posted a task request and then a secondary request while
\* the first was still waiting; both have been handled.
C10_Witness ==
  /\ nworkers = 3
  /\ parent[2] = 1 /\ parent[3] = 1
  /\ emitted[1] = << [type |-> "task", task |-> 8, name |-> <<0, 0>>],
                     [type |-> "secondary", cpu |-> 2, idle |-> 99] >>
  /\ MadeFor(2) = <<"task", <<8>>>>
  /\ MadeFor(3) = <<"secondary", <<2, 99>>>>

\* C11: a message whose kind is neither task nor secondary is ignored by the
\* orchestrator: handling it creates no context, posts no message, changes
\* nothing the orchestrator holds, and leaves the source listened to with the
\* rest of its messages still queued, so that a later request is handled.
C11_UnknownKindIgnored ==
  [][\A w \in Ctxs :
       (MainOnMessage(w) /\ Head(outbox[w]).type \notin {"task", "secondary"})
         => /\ nworkers' = nworkers
            /\ wname' = wname
            /\ listening' = listening
            /\ inbox' = inbox
            /\ ctx' = ctx
            /\ mem' = mem
            /\ outbox' = [outbox EXCEPT ![w] = Tail(@)]]_vars

\* The boot context posted a message of another kind and then a task request;
\* both were dispatched, and the one context made is the task's.
C11_Witness ==
  /\ Len(emitted[1]) = 2
  /\ emitted[1][1].type = "exit"
  /\ emitted[1][2] = TaskRequest(8, <<>>)
  /\ outbox[1] = <<>>
  /\ nworkers = 2
  /\ parent[2] = 1
  /\ ctx[2].entry = "task" /\ ctx[2].args = <<8>>

\* C12: new_worker and bringup_secondary are asynchronous. The step in which a
\* context emits a request leaves that context running and creates or starts
\* no context, and a running context with requests still undispatched can go
\* on making bridge calls, a further request included.
C12_SpawnCallsReturn ==
  /\ [][\A c \in Ctxs :
          emitted'[c] # emitted[c]
            => /\ Running(c)
               /\ ctx' = ctx
               /\ nworkers' = nworkers
               /\ inbox' = inbox]_vars
  /\ [](\A c \in Ctxs :
          (Running(c) /\ Len(outbox[c]) > 0)
            => /\ ENABLED (store(c, 1, 171) /\ UNCHANGED <<last, irqset, clock>>)
               /\ Room => ENABLED (bringup_secondary(c, 2, 99)
                                     /\ UNCHANGED <<last, irqset, clock>>))

\* The boot context made a second call while its first request was still
\* undispatched and the context asked for did not exist.
C12_Witness ==
  /\ nworkers = 1
  /\ Running(1)
  /\ outbox[1] = <<SecondaryRequest(2, 99), TaskRequest(8, <<0, 0>>)>>

\* C13: every context is bound to the one shared memory: each instance imports
\* the memory the orchestrator allocated, and the byte a context has written
\* at an offset is the byte every instantiated context reads there, contexts
\* spawned after the write and at any depth included, until it is overwritten.
C13_OneSharedMemory ==
  \A c \in Ctxs :
    (c <= nworkers /\ ctx[c].status # "created")
      => /\ ctx[c].memory = memory
         /\ \A s \in SysStores : mem[s[1]] = s[2] => load(c, s[1]) = s[2]

\* The boot context wrote a byte; the context it spawned emitted its own
\* request after that write (the name it read holds the byte), and the context
\* spawned for that request, two levels down, reads the byte.
C13_Witness ==
  /\ nworkers = 3
  /\ parent[2] = 1 /\ parent[3] = 2
  /\ Len(emitted[2]) = 1 /\ emitted[2][1].type = "task"
  /\ emitted[2][1].name = <<0, 65533>>
  /\ Running(3)
  /\ mem[1] = 171 /\ load(3, 1) = 171

\* C14: with a host clock that does not go back, the value get_now_nsec
\* returns in a context is never below the value its previous call in the
\* same context returned, and every value is a multiple of 5000 nanoseconds.
C14_NowMonotoneStep5000 ==
  last.op = "get_now_nsec"
    => /\ last.ret >= last.args[1]
       /\ last.ret % 5000 = 0

\* A context read the clock twice with the clock advanced in between, the
\* second time off a 5 microsecond boundary: the value grew, and was rounded.
C14_Witness ==
  /\ last.op = "get_now_nsec"
  /\ last.args[1] > 0
  /\ last.ret > last.args[1]
  /\ clock % ClockTicks # 0

\* C15, as claimed: whenever an encoding failure or the device-tree
\* truncation assertion has surfaced, no kernel code has executed in any
\* context: no context has had its entry point called.
C15_FailuresBeforeKernelCode ==
  (\/ last.op = "EncodingError"
   \/ /\ last.op = "get_dt"
      /\ ctx[Caller].entry = "boot"
      /\ LastCap < Len(ctx[Caller].devicetree))
    => \A d \in Ctxs : ctx[d].entry = "none"

\* C15, amended: an encoding failure surfaces before any context exists. The
\* truncation assertion surfaces inside the boot context's get_dt call, hence
\* after the boot entry was called: it throws before any byte is written and
\* unwinds the boot entry call only, every other context staying as it is.
C15_FailuresSurface ==
  /\ last.op = "EncodingError"
       => (nworkers = 0 /\ \A d \in Ctxs : ctx[d] = NoCtx)
  /\ (/\ last.op = "get_dt"
      /\ ctx[Caller].entry = "boot"
      /\ LastCap < Len(ctx[Caller].devicetree))
       => /\ ctx[Caller].status = "threw"
          /\ mem = last.pre
          /\ \A d \in Ctxs \ {Caller} : ctx[d].status # "threw"

\* The boot context asked for a secondary CPU, which started; then the boot
\* kernel called get_dt with a capacity one byte short and the call threw.
C15_Witness ==
  /\ last.op = "get_dt"
  /\ Caller = 1
  /\ ctx[1].entry = "boot"
  /\ LastCap = Len(ctx[1].devicetree) - 1
  /\ ctx[1].status = "threw"
  /\ nworkers = 2
  /\ ctx[2].entry = "secondary" /\ ctx[2].status = "running"

\* The i-th request of worker w has been dispatched, and the context made for
\* it has had its entry point called with the request's payload.
Served(w, i) ==
  /\ Len(KidsOf(w)) >= i
  /\ LET k == KidsOf(w)[i] IN
     /\ ctx[k].status # "created"
     /\ <<ctx[k].entry, ctx[k].args>> = AskedFor(emitted[w][i])

\* C16: no request in flight is cancelled. With the event loops dispatching
\* what is queued, every request a context has emitted is in the end
\* dispatched and its context started, the entry point called with exactly
\* the payload of the bridge call, also when the emitting context has called
\* halt while the request was waiting.
C16_EveryRequestServed ==
  \A w \in Ctxs, i \in 1..MaxCtx :
    (Len(emitted[w]) >= i) ~> Served(w, i)

\* The boot context called halt with a request of its own still undispatched.
C16_Witness ==
  /\ ctx[1].closing
  /\ nworkers = 1
  /\ outbox[1] = <<TaskRequest(8, <<>>)>>

\* The request worker k was created for: the i-th its source posted, k being
\* the i-th worker created for that source.
RequestFor(k) ==
  LET kids == KidsOf(parent[k])
      i == CHOOSE j \in 1..Len(kids) : kids[j] = k
  IN  emitted[parent[k]][i]

\* The entry call of a context of each kind.
EntryFor(k) == IF k = 1 THEN <<"boot", <<>>>> ELSE AskedFor(RequestFor(k))

\* C17: a context gets one start message in its life: until it instantiates
\* that one message waits, afterwards none does and none arrives, so that it
\* instantiates once and makes one entry call; the call is the one of its
\* kind, boot(), task(handle) or secondary(cpu, idle).
C17_OneStartOneEntry ==
  \A c \in Ctxs :
    /\ c > nworkers => (inbox[c] = <<>> /\ ctx[c] = NoCtx)
    /\ (c <= nworkers /\ ctx[c].status = "created")
         => (Len(inbox[c]) = 1 /\ ctx[c].entry = "none")
    /\ (c <= nworkers /\ ctx[c].status # "created")
         => (inbox[c] = <<>> /\ <<ctx[c].entry, ctx[c].args>> = EntryFor(c))

\* Three contexts, one of each kind; the task context's entry call has
\* returned and nothing more has come for it.
C17_Witness ==
  /\ nworkers = 3
  /\ ctx[1].entry = "boot" /\ ctx[1].status = "running"
  /\ ctx[2].entry = "task" /\ ctx[2].args = <<7>> /\ ctx[2].status = "returned"
  /\ ctx[3].entry = "secondary" /\ ctx[3].args = <<2, 99>>
  /\ \A c \in Ctxs : inbox[c] = <<>>

\* The value the latest set_irq_enabled call of context c passed, 0 if it has
\* made none.
LatestSet(c) == IF irqset[c] = NeverSet THEN 0 ELSE irqset[c]

OtherCalls ==
  {"boot_console_write", "get_dt", "get_stacktrace", "new_worker",
   "bringup_secondary", "get_now_nsec"}

\* C18: in a context, get_irq_enabled returns the value of the latest
\* set_irq_enabled call made in that context, 0 if there was none, and none
\* of the other bridge calls changes the flag of any context.
C18_FlagIsLatestSet ==
  /\ last.op = "get_irq_enabled" => last.ret = LatestSet(Caller)
  /\ \A c \in Ctxs : ctx[c].status # "created" => IrqEnabled(ctx, c) = LatestSet(c)
  /\ last.op \in OtherCalls => FlagsNow = last.pre

\* Context 2 set its flag to 1, then posted a request, and now reads its flag:
\* 1, while the boot context, which set 0 after setting 1, would read 0.
C18_Witness ==
  /\ last.op = "get_irq_enabled"
  /\ Caller = 2
  /\ last.ret = 1
  /\ irqset[2] = 1
  /\ irqset[1] = 0
  /\ Len(outbox[2]) = 1
  /\ mem # ZeroMem

\* A context that never called set_irq_enabled reads 0.
C18_NeverSetReadsZero ==
  /\ last.op = "get_irq_enabled"
  /\ irqset[Caller] = NeverSet
  /\ last.ret = 0

\* The workers that are, or are about to be, a boot context: sent a boot start
\* message, running the boot entry, or holding the boot case's get_dt.
BootContexts ==
  {c \in 1..nworkers :
     \/ \E i \in 1..Len(inbox[c]) : inbox[c][i].type = "boot"
     \/ ctx[c].entry = "boot"
     \/ ctx[c].get_dt = "boot"}

\* C19: there is exactly one boot context, the first worker, whatever is
\* posted to the orchestrator; the device tree is in the boot worker's start
\* message and in its instance and nowhere else, so that the one get_dt that
\* writes the blob is the boot context's.
C19_OneBootContext ==
  /\ BootContexts = {1}
  /\ \A c \in Ctxs \ {1} :
       /\ ctx[c].devicetree = <<>>
       /\ \A i \in 1..Len(inbox[c]) : "devicetree" \notin DOMAIN inbox[c][i]
  /\ \A c \in Ctxs :
       \A i \in 1..Len(outbox[c]) : "devicetree" \notin DOMAIN outbox[c][i]

\* Three contexts run, one of them boot, after the task context posted a
\* message of kind boot that the orchestrator has taken.
C19_Witness ==
  /\ nworkers = 3
  /\ \A c \in Ctxs : ctx[c].status = "running"
  /\ Len(emitted[2]) > 0 /\ emitted[2][1].type = "boot"
  /\ outbox[2] = <<>>
  /\ ctx[1].get_dt = "boot" /\ ctx[1].devicetree = Blob(MaxDt)
  /\ ctx[2].get_dt = "default" /\ ctx[3].get_dt = "default"

\* The workers created for a secondary request.
Secondaries == {w \in 2..nworkers : RequestFor(w).type = "secondary"}

\* C20: the requests of a secondary context are relayed as those of a boot or
\* task context are: the orchestrator listens to every secondary worker, and
\* each request such a worker posted either still waits or has had its worker
\* created, for that request's kind and payload.
C20_SecondaryRelayed ==
  \A w \in Secondaries :
    LET kids == KidsOf(w) IN
    /\ listening[w]
    /\ Len(emitted[w]) = Len(kids) + Len(outbox[w])
    /\ \A i \in 1..Len(kids) : MadeFor(kids[i]) = AskedFor(emitted[w][i])

\* A secondary context called new_worker, and the task context asked for runs.
C20_Witness ==
  /\ nworkers = 3
  /\ parent[2] = 1 /\ ctx[2].entry = "secondary"
  /\ 2 \in Secondaries
  /\ Len(emitted[2]) = 1 /\ emitted[2][1].type = "task" /\ emitted[2][1].task = 8
  /\ parent[3] = 2
  /\ ctx[3].status = "running" /\ ctx[3].entry = "task" /\ ctx[3].args = <<8>>

====
